---- MODULE Spec2Model ----
(***************************************************************************)
(* Model of qwen3_embed (src/build_src/qwen3_embed/src/main.rs): the       *)
(* pipeline real_main (cache check, model acquisition, input validation,   *)
(* embedding, cosine similarity, timing, output) and the pure function     *)
(* cosine_sim over IEEE-754 binary32 values.                               *)
(***************************************************************************)
EXTENDS Integers, Sequences, FiniteSets, TLC

VARIABLES
    args,        \* Args: [document, query, cache_only, cache_dir]
    hf_hub,      \* cfg(feature = "hf-hub") of the build
    fs,          \* filesystem: path -> "absent" | "complete" | "partial"
    fs0,         \* the filesystem as it was when the process started
    pc,          \* position in real_main
    now,         \* the monotonic clock (Instant), in ticks
    t0,          \* Instant taken at line 60
    t_model,     \* Instant taken at line 100
    t_embed,     \* Instant taken at line 144
    t_sim,       \* Instant taken at line 149
    timings,     \* [model_load, embed, similarity, total] in ms, each <<>> or <<n>>
    cache_dir,   \* the resolved cache directory
    model,       \* <<>> or <<handle>>: the Qwen3TextEmbedding of line 102
    inputs,      \* the vec! of line 141
    embeddings,  \* the result of model.embed
    sim,         \* <<>> or <<f32>>: the value of line 150
    calls,       \* the external calls made so far, in order, with arguments
    stdout,      \* the objects printed by println!
    err,         \* <<>> or <<message>>: the Err real_main returned
    va, vb,      \* cosine_sim's arguments, when it is called on its own
    vres         \* <<>> or <<f32>>: what that call returned

vars == <<args, hf_hub, fs, fs0, pc, now, t0, t_model, t_embed, t_sim, timings,
          cache_dir, model, inputs, embeddings, sim, calls, stdout, err,
          va, vb, vres>>

None == <<>>
Some(x) == <<x>>
IsSome(o) == o # <<>>
Unwrap(o) == o[1]

Min(a, b) == IF a <= b THEN a ELSE b
Max(a, b) == IF a >= b THEN a ELSE b

(***************************************************************************)
(* f32: IEEE-754 binary32.  A finite value is sign, odd mantissa m and     *)
(* exponent e, standing for (-1)^s * m * 2^e (zero: m = 0, e = 0); it is   *)
(* a binary32 value when m has at most MantBits bits, e >= MinExp and      *)
(* m * 2^e < 2^MaxExp.  Every operation gives the exact result rounded to  *)
(* nearest, ties to even.                                                  *)
(***************************************************************************)
MantBits == 24
MinExp == -149
MaxExp == 128

RECURSIVE Pow2(_)
Pow2(n) == IF n <= 0 THEN 1 ELSE 2 * Pow2(n - 1)

RECURSIVE BitLen(_)
BitLen(n) == IF n = 0 THEN 0 ELSE 1 + BitLen(n \div 2)

NaN == [k |-> "nan", s |-> 0, m |-> 0, e |-> 0]
Inf(s) == [k |-> "inf", s |-> s, m |-> 0, e |-> 0]
Zero(s) == [k |-> "fin", s |-> s, m |-> 0, e |-> 0]

RECURSIVE Canon(_, _, _)
Canon(s, m, e) ==
    IF m % 2 = 0 THEN Canon(s, m \div 2, e + 1)
    ELSE [k |-> "fin", s |-> s, m |-> m, e |-> e]

\* The binary32 value m * 2^e once it is known to need no rounding.
Pack(s, m, e) ==
    IF m = 0 THEN Zero(s)
    ELSE IF e + BitLen(m) > MaxExp THEN Inf(s)
    ELSE Canon(s, m, e)

\* Round the exact value M * 2^E to binary32 (nearest, ties to even).
F32Round(s, M, E) ==
    IF M = 0 THEN Zero(s)
    ELSE LET L == BitLen(M)
             q == Max(E + L - MantBits, MinExp)
             sh == q - E
         IN  IF sh <= 0 THEN Pack(s, M, E)
             ELSE IF sh > L THEN Zero(s)
             ELSE LET p == Pow2(sh)
                      quo == M \div p
                      rem == M % p
                      half == p \div 2
                      up == rem > half \/ (rem = half /\ quo % 2 = 1)
                  IN  Pack(s, quo + (IF up THEN 1 ELSE 0), q)

\* A small integer as an f32.
F(i) == IF i >= 0 THEN F32Round(0, i, 0) ELSE F32Round(1, -i, 0)
\* (-1)^s * 2^e as an f32.
P2(s, e) == F32Round(s, 1, e)

IsZero(x) == x.k = "fin" /\ x.m = 0

\* m shifted right by sh bits, its lowest bit set when a one was shifted out
\* (the sticky bit): rounding the result two or more bits higher up rounds as
\* the exact value does.
ShiftRightJam(m, sh) ==
    IF sh <= 0 THEN m
    ELSE IF sh >= 30 THEN (IF m = 0 THEN 0 ELSE 1)
    ELSE LET p == Pow2(sh)
             q == m \div p
         IN  IF m % p # 0 /\ q % 2 = 0 THEN q + 1 ELSE q

\* m with its lowest bit set when sticky.
Jam(m, sticky) == IF sticky /\ m % 2 = 0 THEN m + 1 ELSE m

\* x * y.  The product of two 24-bit mantissas is formed in two 24-bit limbs
\* (hi, lo) from 12-bit halves, then cut to 29 bits with a sticky bit.
F32Mul(x, y) ==
    IF x.k = "nan" \/ y.k = "nan" THEN NaN
    ELSE LET s == (x.s + y.s) % 2
         IN  IF x.k = "inf" \/ y.k = "inf"
             THEN (IF IsZero(x) \/ IsZero(y) THEN NaN ELSE Inf(s))
             ELSE LET a1 == x.m \div 4096
                      a0 == x.m % 4096
                      b1 == y.m \div 4096
                      b0 == y.m % 4096
                      mid == a1 * b0 + a0 * b1
                      lofull == a0 * b0 + (mid % 4096) * 4096
                      lo == lofull % 16777216
                      hi == a1 * b1 + mid \div 4096 + lofull \div 16777216
                      r == BitLen(hi) - 5
                      E == x.e + y.e
                  IN  IF r <= 0 THEN F32Round(s, hi * 16777216 + lo, E)
                      ELSE F32Round(s, Jam(hi * Pow2(24 - r) + lo \div Pow2(r),
                                           lo % Pow2(r) # 0), E + r)

\* The magnitude of the finite non-zero x in units of 2^E0, with a sticky bit
\* when it is no whole number of them.
Units(x, E0) ==
    IF x.e >= E0 THEN x.m * Pow2(x.e - E0) ELSE ShiftRightJam(x.m, E0 - x.e)

\* x + y.  Both operands are aligned to the unit 2^E0, 28 bits below the top
\* bit of the larger one (guard bits and a sticky bit), added with their
\* signs, and the sum is rounded.
F32Add(x, y) ==
    IF x.k = "nan" \/ y.k = "nan" THEN NaN
    ELSE IF x.k = "inf"
         THEN (IF y.k = "inf" /\ y.s # x.s THEN NaN ELSE x)
    ELSE IF y.k = "inf" THEN y
    ELSE IF IsZero(x) /\ IsZero(y)
         THEN Zero(IF x.s = 1 /\ y.s = 1 THEN 1 ELSE 0)
    ELSE IF IsZero(x) THEN y
    ELSE IF IsZero(y) THEN x
    ELSE LET tx == x.e + BitLen(x.m)
             ty == y.e + BitLen(y.m)
             E0 == Max(tx, ty) - 28
             ix == (IF x.s = 1 THEN -1 ELSE 1) * Units(x, E0)
             iy == (IF y.s = 1 THEN -1 ELSE 1) * Units(y, E0)
             sum == ix + iy
         IN  IF sum = 0 THEN Zero(0)
             ELSE IF sum < 0 THEN F32Round(1, -sum, E0)
             ELSE F32Round(0, sum, E0)

\* x == 0.0 (true of both zeros, false of NaN)
F32EqZero(x) == IsZero(x)

\* The square root digit by digit, two bits of the radicand n per step from
\* pair i down to pair -k (the pairs below 0 are zero): <<root, remainder>>
\* of n * 4^k.
RECURSIVE SqrtDigits(_, _, _, _, _)
SqrtDigits(n, i, k, root, rem) ==
    IF i < -k THEN <<root, rem>>
    ELSE LET pair == IF i >= 0 THEN (n \div Pow2(2 * i)) % 4 ELSE 0
             r == rem * 4 + pair
             trial == root * 4 + 1
         IN  IF r >= trial THEN SqrtDigits(n, i - 1, k, 2 * root + 1, r - trial)
             ELSE SqrtDigits(n, i - 1, k, 2 * root, r)

\* x.sqrt(): the root to 26 bits and a sticky bit, rounded.
F32Sqrt(x) ==
    IF x.k = "nan" THEN NaN
    ELSE IF IsZero(x) THEN x
    ELSE IF x.s = 1 THEN NaN
    ELSE IF x.k = "inf" THEN x
    ELSE LET odd == x.e % 2 = 1
             n == IF odd THEN 2 * x.m ELSE x.m
             e == IF odd THEN x.e - 1 ELSE x.e
             h == (BitLen(n) + 1) \div 2
             k == 26 - h
             rr == SqrtDigits(n, h - 1, k, 0, 0)
         IN  F32Round(0, Jam(rr[1], rr[2] # 0), e \div 2 - k)

\* Long division: n more quotient bits of r / b, given the quotient q so far:
\* <<quotient, remainder>>.
RECURSIVE DivDigits(_, _, _, _)
DivDigits(r, b, q, n) ==
    IF n = 0 THEN <<q, r>>
    ELSE IF 2 * r >= b THEN DivDigits(2 * r - b, b, 2 * q + 1, n - 1)
    ELSE DivDigits(2 * r, b, 2 * q, n - 1)

\* x / y: the quotient of the two mantissas, each first made 24 bits wide, to
\* 27 or 28 bits and a sticky bit, rounded.
F32Div(x, y) ==
    IF x.k = "nan" \/ y.k = "nan" THEN NaN
    ELSE LET s == (x.s + y.s) % 2
         IN  IF x.k = "inf" THEN (IF y.k = "inf" THEN NaN ELSE Inf(s))
             ELSE IF y.k = "inf" THEN Zero(s)
             ELSE IF IsZero(y) THEN (IF IsZero(x) THEN NaN ELSE Inf(s))
             ELSE IF IsZero(x) THEN Zero(s)
             ELSE LET lx == BitLen(x.m)
                      ly == BitLen(y.m)
                      a == x.m * Pow2(MantBits - lx)
                      b == y.m * Pow2(MantBits - ly)
                      qr == DivDigits(a % b, b, a \div b, 27)
                  IN  F32Round(s, Jam(qr[1], qr[2] # 0),
                               (x.e + lx) - (y.e + ly) - 27)

IsNaN(x) == x.k = "nan"
IsInf(x) == x.k = "inf"

(***************************************************************************)
(* cosine_sim                                                              *)
(***************************************************************************)
\* The loop of lines 32-39 over the first n zipped pairs.
RECURSIVE Accumulate(_, _, _)
Accumulate(a, b, n) ==
    IF n = 0 THEN [dot |-> Zero(0), na |-> Zero(0), nb |-> Zero(0)]
    ELSE LET acc == Accumulate(a, b, n - 1)
             x == a[n]
             y == b[n]
         IN  [dot |-> F32Add(acc.dot, F32Mul(x, y)),
              na  |-> F32Add(acc.na, F32Mul(x, x)),
              nb  |-> F32Add(acc.nb, F32Mul(y, y))]

\* a.iter().zip(b.iter()) stops at the shorter slice.
ZipAccumulate(a, b) == Accumulate(a, b, Min(Len(a), Len(b)))

\* The branch of line 40.
ZeroNorm(acc) == F32EqZero(acc.na) \/ F32EqZero(acc.nb)

\* Mutant: only the first norm is tested against zero.
cosine_sim_na_only(a, b) ==
    LET acc == ZipAccumulate(a, b)
    IN  IF F32EqZero(acc.na) THEN Zero(0)
        ELSE F32Div(acc.dot, F32Mul(F32Sqrt(acc.na), F32Sqrt(acc.nb)))

\* Mutant: the second norm enters the denominator without its square root.
cosine_sim_asym(a, b) ==
    LET acc == ZipAccumulate(a, b)
    IN  IF ZeroNorm(acc) THEN Zero(0)
        ELSE F32Div(acc.dot, F32Mul(F32Sqrt(acc.na), acc.nb))

cosine_sim(a, b) ==
    LET acc == ZipAccumulate(a, b)
    IN  IF ZeroNorm(acc) THEN Zero(0)
        ELSE F32Div(acc.dot, F32Mul(F32Sqrt(acc.na), F32Sqrt(acc.nb)))

(***************************************************************************)
(* The process: arguments, build feature, filesystem, clock                *)
(***************************************************************************)
MaxTick == 2        \* a timed call (load, fetch, embed, cosine_sim) takes 0..MaxTick ticks
TicksPerMs == 2     \* clock ticks per millisecond
MaxLen == 2         \* longest vector handed to cosine_sim on its own

\* What the clock may advance by: across a timed call, and across the glue
\* code between two timers.
CallTicks == 0..MaxTick
GlueTicks == {0, 1}

DefaultCacheDir == "qwen3_local_cache"
OtherCacheDir == "alt_cache"
Paths == {DefaultCacheDir, OtherCacheDir}
DirStates == {"absent", "complete", "partial"}

QueryTexts == {"", "Where is the cat?"}
DocumentTexts == {"The cat sat on the mat."}

Option(S) == {None} \cup {Some(x) : x \in S}

\* struct Args, as Args::parse() returns it.
ArgsSet ==
    [document : Option(DocumentTexts), query : Option(QueryTexts),
     cache_only : BOOLEAN, cache_dir : Option({OtherCacheDir})]

\* Lines 62-66.
ResolveCacheDir(a) ==
    IF IsSome(a.cache_dir) THEN Unwrap(a.cache_dir) ELSE DefaultCacheDir

\* Mutant: the cache counts as present only when its artifacts are complete.
ExistsComplete(f, dir) == f[dir] = "complete"

\* cache_dir.exists()
Exists(f, dir) == f[dir] # "absent"

\* Mutant: the duration rounded up to whole milliseconds.
ElapsedMsCeil(start, end) == (end - start + TicksPerMs - 1) \div TicksPerMs

\* t.elapsed().as_millis() as u64, for a start instant and the instant of the read.
ElapsedMs(start, end) == (end - start) \div TicksPerMs

ModelId == "Qwen/Qwen3-Embedding-0.6B"
MaxSeqLen == 512

NoTimings == [model_load |-> None, embed |-> None, similarity |-> None, total |-> None]

\* An error message is the sequence of its pieces, in order; the text of the
\* message is their concatenation.  A piece is a string, or the code point of
\* a character that a string of this module cannot hold.
Backquote == 96

\* The error messages of lines 94, 120, 135 and 139.
CacheOnlyNoHubMsg ==
    <<"--cache-only requested but hf-hub feature is disabled; cannot populate cache in this build. Use --cache-dir to point to a cache directory.">>
NoCacheMsg(dir) ==
    <<"No cache found and hf-hub is disabled. Please provide the cache directory (e.g. ",
      Backquote, "qwen3_local_cache", Backquote,
      ") or run with --cache-dir to point to an existing cache: ", dir>>
DocumentRequiredMsg == <<"--document is required">>
QueryRequiredMsg == <<"--query is required">>

\* anyhow!(e.to_string()) for an error e of the embedding library.
LibraryMsg(e) == <<e>>

(***************************************************************************)
(* mod qwen3 (Qwen3TextEmbedding) is not part of the source at hand; its   *)
(* three entry points are modelled from the specification, sections 4.2    *)
(* and 4.3.                                                                *)
(***************************************************************************)
\* from_local_cache: reads the artifacts of dir, never writes.
LocalOutcomes(dirstate) ==
    IF dirstate = "complete" THEN {"ok"} ELSE {"LoadError"}

\* from_hf_cached: downloads into dir (creating it if absent), then loads.
\* Each outcome is <<result, the state it leaves dir in>>.
FetchOutcomes(dirstate) ==
    {<<"ok", "complete">>, <<"FetchError", dirstate>>,
     <<"FetchError", "partial">>, <<"LoadError", "partial">>}

\* Vectors the engine may return, all of one dimensionality.
EngineVectors == {<<F(0), F(0)>>, <<F(3), F(4)>>, <<F(-1), F(0)>>, <<NaN, F(1)>>}

\* embed: one vector per input, in input order, or an InferenceError.
EmbedOutcomes(ins) ==
    {<<"InferenceError", <<>>>>} \cup
    {<<"ok", vs>> : vs \in [1..Len(ins) -> EngineVectors]}

Call(fn, arg, res) == [fn |-> fn, arg |-> arg, res |-> res]

(***************************************************************************)
(* real_main                                                               *)
(***************************************************************************)
Init ==
    /\ args \in ArgsSet
    /\ hf_hub \in BOOLEAN
    /\ fs \in {f \in [Paths -> DirStates] :
                  \A p \in Paths : p # ResolveCacheDir(args) => f[p] = "absent"}
    /\ fs0 = fs
    /\ pc = "start"
    /\ now = 0
    /\ t0 = None /\ t_model = None /\ t_embed = None /\ t_sim = None
    /\ timings = NoTimings
    /\ cache_dir = None
    /\ model = None
    /\ inputs = None
    /\ embeddings = None
    /\ sim = None
    /\ calls = <<>>
    /\ stdout = <<>>
    /\ err = None
    /\ va = <<>> /\ vb = <<>> /\ vres = None

cosvars == <<va, vb, vres>>
envvars == <<args, hf_hub, fs0>>

\* return Err(anyhow!(msg))
Fail(msg) == pc' = "exit_err" /\ err' = Some(msg)

\* Lines 59-66: t0 and the cache directory.
Start ==
    /\ pc = "start"
    /\ \E d \in GlueTicks :
        /\ now' = now + d
        /\ t0' = Some(now')
    /\ cache_dir' = Some(ResolveCacheDir(args))
    /\ pc' = IF args.cache_only THEN "cache_only" ELSE "load"
    /\ UNCHANGED <<fs, t_model, t_embed, t_sim, timings, model, inputs,
                   embeddings, sim, calls, stdout, err>>
    /\ UNCHANGED <<envvars, cosvars>>

\* Mutant: no return when the cache is there; the run goes on to load.
CacheOnlyPresentFallsThrough ==
    /\ pc = "cache_only"
    /\ Exists(fs, Unwrap(cache_dir))
    /\ pc' = "load"
    /\ UNCHANGED <<fs, now, t0, t_model, t_embed, t_sim, timings, cache_dir,
                   model, inputs, embeddings, sim, calls, stdout, err>>
    /\ UNCHANGED <<envvars, cosvars>>

\* Lines 69-75: --cache-only and the cache is there.
CacheOnlyPresent ==
    /\ pc = "cache_only"
    /\ Exists(fs, Unwrap(cache_dir))
    /\ pc' = "exit_ok"
    /\ UNCHANGED <<fs, now, t0, t_model, t_embed, t_sim, timings, cache_dir,
                   model, inputs, embeddings, sim, calls, stdout, err>>
    /\ UNCHANGED <<envvars, cosvars>>

\* Mutant: no return after the cache is populated; the run goes on to load.
CacheOnlyFetchFallsThrough ==
    /\ pc = "cache_only"
    /\ ~Exists(fs, Unwrap(cache_dir))
    /\ hf_hub
    /\ \E o \in FetchOutcomes(fs[Unwrap(cache_dir)]) :
        /\ calls' = Append(calls, Call("from_hf_cached",
                                       <<ModelId, MaxSeqLen, Unwrap(cache_dir)>>, o[1]))
        /\ fs' = [fs EXCEPT ![Unwrap(cache_dir)] = o[2]]
        /\ IF o[1] = "ok"
           THEN pc' = "load" /\ err' = err
           ELSE Fail(LibraryMsg(o[1]))
    /\ UNCHANGED <<now, t0, t_model, t_embed, t_sim, timings, cache_dir,
                   model, inputs, embeddings, sim, stdout>>
    /\ UNCHANGED <<envvars, cosvars>>

\* Lines 77-89: --cache-only, no cache, hf-hub built in.
CacheOnlyFetch ==
    /\ pc = "cache_only"
    /\ ~Exists(fs, Unwrap(cache_dir))
    /\ hf_hub
    /\ \E o \in FetchOutcomes(fs[Unwrap(cache_dir)]) :
        /\ calls' = Append(calls, Call("from_hf_cached",
                                       <<ModelId, MaxSeqLen, Unwrap(cache_dir)>>, o[1]))
        /\ fs' = [fs EXCEPT ![Unwrap(cache_dir)] = o[2]]
        /\ IF o[1] = "ok"
           THEN pc' = "exit_ok" /\ err' = err
           ELSE Fail(LibraryMsg(o[1]))
    /\ UNCHANGED <<now, t0, t_model, t_embed, t_sim, timings, cache_dir,
                   model, inputs, embeddings, sim, stdout>>
    /\ UNCHANGED <<envvars, cosvars>>

\* Lines 91-96: --cache-only, no cache, hf-hub not built in.
CacheOnlyNoHub ==
    /\ pc = "cache_only"
    /\ ~Exists(fs, Unwrap(cache_dir))
    /\ ~hf_hub
    /\ Fail(CacheOnlyNoHubMsg)
    /\ UNCHANGED <<fs, now, t0, t_model, t_embed, t_sim, timings, cache_dir,
                   model, inputs, embeddings, sim, calls, stdout>>
    /\ UNCHANGED <<envvars, cosvars>>

\* Mutant: a failed local load falls back to the remote fetch.
LoadLocalWithFallback ==
    /\ pc = "load"
    /\ Exists(fs, Unwrap(cache_dir))
    /\ \E d \in GlueTicks :
        /\ now' = now + d
        /\ t_model' = Some(now')
    /\ \E r \in LocalOutcomes(fs[Unwrap(cache_dir)]) :
        LET c1 == Append(calls, Call("from_local_cache", <<Unwrap(cache_dir)>>, r))
        IN  IF r = "ok"
            THEN /\ calls' = c1
                 /\ pc' = "loaded" /\ model' = Some("local") /\ err' = err
                 /\ fs' = fs
            ELSE IF hf_hub
            THEN \E o \in FetchOutcomes(fs[Unwrap(cache_dir)]) :
                    /\ calls' = Append(c1, Call("from_hf_cached",
                                          <<ModelId, MaxSeqLen, Unwrap(cache_dir)>>, o[1]))
                    /\ fs' = [fs EXCEPT ![Unwrap(cache_dir)] = o[2]]
                    /\ IF o[1] = "ok"
                       THEN pc' = "loaded" /\ model' = Some("fetched") /\ err' = err
                       ELSE Fail(LibraryMsg(o[1])) /\ model' = model
            ELSE /\ calls' = c1
                 /\ Fail(LibraryMsg(r)) /\ model' = model
                 /\ fs' = fs
    /\ UNCHANGED <<t0, t_embed, t_sim, timings, cache_dir, inputs,
                   embeddings, sim, stdout>>
    /\ UNCHANGED <<envvars, cosvars>>

\* Lines 100-104: the cache is there, load it.
LoadLocal ==
    /\ pc = "load"
    /\ Exists(fs, Unwrap(cache_dir))
    /\ \E d \in GlueTicks :
        /\ now' = now + d
        /\ t_model' = Some(now')
    /\ \E r \in LocalOutcomes(fs[Unwrap(cache_dir)]) :
        /\ calls' = Append(calls, Call("from_local_cache", <<Unwrap(cache_dir)>>, r))
        /\ IF r = "ok"
           THEN pc' = "loaded" /\ model' = Some("local") /\ err' = err
           ELSE Fail(LibraryMsg(r)) /\ model' = model
    /\ UNCHANGED <<fs, t0, t_embed, t_sim, timings, cache_dir, inputs,
                   embeddings, sim, stdout>>
    /\ UNCHANGED <<envvars, cosvars>>

\* Lines 100-116: no cache, hf-hub built in, fetch it.
FetchRemote ==
    /\ pc = "load"
    /\ ~Exists(fs, Unwrap(cache_dir))
    /\ hf_hub
    /\ \E d \in GlueTicks :
        /\ now' = now + d
        /\ t_model' = Some(now')
    /\ \E o \in FetchOutcomes(fs[Unwrap(cache_dir)]) :
        /\ calls' = Append(calls, Call("from_hf_cached",
                                       <<ModelId, MaxSeqLen, Unwrap(cache_dir)>>, o[1]))
        /\ fs' = [fs EXCEPT ![Unwrap(cache_dir)] = o[2]]
        /\ IF o[1] = "ok"
           THEN pc' = "loaded" /\ model' = Some("fetched") /\ err' = err
           ELSE Fail(LibraryMsg(o[1])) /\ model' = model
    /\ UNCHANGED <<t0, t_embed, t_sim, timings, cache_dir, inputs,
                   embeddings, sim, stdout>>
    /\ UNCHANGED <<envvars, cosvars>>

\* Lines 100-123: no cache, hf-hub not built in.
NoCacheNoHub ==
    /\ pc = "load"
    /\ ~Exists(fs, Unwrap(cache_dir))
    /\ ~hf_hub
    /\ \E d \in GlueTicks :
        /\ now' = now + d
        /\ t_model' = Some(now')
    /\ Fail(NoCacheMsg(Unwrap(cache_dir)))
    /\ UNCHANGED <<fs, t0, t_embed, t_sim, timings, cache_dir, model, inputs,
                   embeddings, sim, calls, stdout>>
    /\ UNCHANGED <<envvars, cosvars>>

\* Mutant: the two role prefixes on the wrong texts.
BuildInputsSwapped(query, document) == <<"query: " \o document, "passage: " \o query>>

\* Line 141.
BuildInputs(query, document) == <<"query: " \o query, "passage: " \o document>>

\* An absent text taken as the empty string (unwrap_or_default).
OrEmpty(o) == IF IsSome(o) THEN Unwrap(o) ELSE ""

\* Mutant: the inputs are not validated; an absent text is embedded as "".
PrepareInputsUnchecked ==
    /\ pc = "loaded"
    /\ \E d \in CallTicks :
        /\ now' = now + d
        /\ timings' = [timings EXCEPT
                          !.model_load = Some(ElapsedMs(Unwrap(t_model), now'))]
    /\ inputs' = Some(BuildInputs(OrEmpty(args.query), OrEmpty(args.document)))
    /\ pc' = "prepared"
    /\ err' = err
    /\ UNCHANGED <<fs, t0, t_model, t_embed, t_sim, cache_dir, model,
                   embeddings, sim, calls, stdout>>
    /\ UNCHANGED <<envvars, cosvars>>

\* Lines 129-141: model_ms, then the two required inputs, document first.
PrepareInputs ==
    /\ pc = "loaded"
    /\ \E d \in CallTicks :
        /\ now' = now + d
        /\ timings' = [timings EXCEPT
                          !.model_load = Some(ElapsedMs(Unwrap(t_model), now'))]
    /\ IF ~IsSome(args.document) THEN Fail(DocumentRequiredMsg) /\ inputs' = inputs
       ELSE IF ~IsSome(args.query) THEN Fail(QueryRequiredMsg) /\ inputs' = inputs
       ELSE /\ inputs' = Some(BuildInputs(Unwrap(args.query), Unwrap(args.document)))
            /\ pc' = "prepared"
            /\ err' = err
    /\ UNCHANGED <<fs, t0, t_model, t_embed, t_sim, cache_dir, model,
                   embeddings, sim, calls, stdout>>
    /\ UNCHANGED <<envvars, cosvars>>

\* Lines 144-146: the one embed call, timed.
Embed ==
    /\ pc = "prepared"
    /\ \E d1 \in GlueTicks, d2 \in CallTicks, o \in EmbedOutcomes(Unwrap(inputs)) :
        /\ t_embed' = Some(now + d1)
        /\ calls' = Append(calls, Call("embed", Unwrap(inputs), o[1]))
        /\ IF o[1] = "ok"
           THEN /\ embeddings' = Some(o[2])
                /\ now' = now + d1 + d2
                /\ timings' = [timings EXCEPT
                                  !.embed = Some(ElapsedMs(now + d1, now'))]
                /\ pc' = "embedded"
                /\ err' = err
           ELSE /\ now' = now + d1
                /\ Fail(LibraryMsg(o[1]))
                /\ UNCHANGED <<embeddings, timings>>
    /\ UNCHANGED <<fs, t0, t_model, t_sim, cache_dir, model, inputs, sim, stdout>>
    /\ UNCHANGED <<envvars, cosvars>>

\* Lines 149-153: the similarity of embeddings[0] and embeddings[1], timed,
\* then the total.
Score ==
    /\ pc = "embedded"
    /\ \E d1 \in GlueTicks, d2 \in CallTicks, d3 \in GlueTicks :
        /\ t_sim' = Some(now + d1)
        /\ now' = now + d1 + d2 + d3
        /\ timings' = [timings EXCEPT
                          !.similarity = Some(ElapsedMs(now + d1, now + d1 + d2)),
                          !.total = Some(ElapsedMs(Unwrap(t0), now'))]
    /\ LET a == Unwrap(embeddings)[1]
           b == Unwrap(embeddings)[2]
       IN  /\ sim' = Some(cosine_sim(a, b))
           /\ calls' = Append(calls, Call("cosine_sim", <<a, b>>, "ok"))
    /\ pc' = "scored"
    /\ UNCHANGED <<fs, t0, t_model, t_embed, cache_dir, model, inputs,
                   embeddings, stdout, err>>
    /\ UNCHANGED <<envvars, cosvars>>

\* serde_json's value of an f32: a number, or null when it is NaN or infinite.
JsonNull == [k |-> "null"]
JsonF32(x) == IF IsNaN(x) \/ IsInf(x) THEN JsonNull ELSE x

\* Lines 156-164: the result object.
ResultObject(s, t) ==
    [cosine_similarity |-> JsonF32(s),
     timings_ms |-> [model_load |-> Unwrap(t.model_load), embed |-> Unwrap(t.embed),
                     similarity |-> Unwrap(t.similarity), total |-> Unwrap(t.total)]]

\* Lines 156-172: print the result object, return Ok.
Output ==
    /\ pc = "scored"
    /\ stdout' = Append(stdout, ResultObject(Unwrap(sim), timings))
    /\ pc' = "exit_ok"
    /\ UNCHANGED <<fs, now, t0, t_model, t_embed, t_sim, timings, cache_dir,
                   model, inputs, embeddings, sim, calls, err>>
    /\ UNCHANGED <<envvars, cosvars>>

Next ==
    \/ Start
    \/ CacheOnlyPresent
    \/ CacheOnlyFetch
    \/ CacheOnlyNoHub
    \/ LoadLocal
    \/ FetchRemote
    \/ NoCacheNoHub
    \/ PrepareInputs
    \/ Embed
    \/ Score
    \/ Output

Spec == Init /\ [][Next]_vars

(***************************************************************************)
(* cosine_sim called on its own, on vectors of up to MaxLen values         *)
(***************************************************************************)
Tiny == P2(0, -80)      \* its square underflows to zero
Huge == P2(0, 70)       \* its square overflows to infinity
F32Values == {F(0), F(1), F(-2), Tiny, Huge, Inf(0), NaN}

RECURSIVE VectorsUpTo(_)
VectorsUpTo(n) ==
    IF n = 0 THEN {<<>>}
    ELSE VectorsUpTo(n - 1) \cup [1..n -> F32Values]

InitCosine ==
    /\ args = [document |-> None, query |-> None, cache_only |-> FALSE,
               cache_dir |-> None]
    /\ hf_hub = FALSE
    /\ fs = [p \in Paths |-> "absent"]
    /\ fs0 = fs
    /\ pc = "cosine"
    /\ now = 0
    /\ t0 = None /\ t_model = None /\ t_embed = None /\ t_sim = None
    /\ timings = NoTimings
    /\ cache_dir = None
    /\ model = None
    /\ inputs = None
    /\ embeddings = None
    /\ sim = None
    /\ calls = <<>>
    /\ stdout = <<>>
    /\ err = None
    /\ va \in VectorsUpTo(MaxLen)
    /\ vb \in VectorsUpTo(MaxLen)
    /\ vres = None

\* cosine_sim(&va, &vb)
CallCosine ==
    /\ pc = "cosine"
    /\ vres = None
    /\ vres' = Some(cosine_sim(va, vb))
    /\ UNCHANGED <<args, hf_hub, fs, fs0, pc, now, t0, t_model, t_embed, t_sim,
                   timings, cache_dir, model, inputs, embeddings, sim, calls,
                   stdout, err, va, vb>>

NextCosine == CallCosine

SpecCosine == InitCosine /\ [][NextCosine]_vars

(***************************************************************************)
(* Properties                                                              *)
(***************************************************************************)
CallsOf(fns) == SelectSeq(calls, LAMBDA c : c.fn \in fns)
Acquisitions == CallsOf({"from_local_cache", "from_hf_cached"})
Exited == pc \in {"exit_ok", "exit_err"}
Dir == ResolveCacheDir(args)
FetchArgs == <<ModelId, MaxSeqLen, Dir>>

\* C1: without --cache-only, once the acquisition step has run: a cache
\* directory that existed at the check is loaded locally and never fetched;
\* a missing one is fetched into that directory when hf-hub is built in; a
\* missing one without hf-hub ends the run at once with the error that names
\* the expected cache directory, and no model is loaded.
C1_AcquisitionByCacheCheck ==
    (~args.cache_only /\ pc \notin {"start", "load"}) =>
        /\ fs0[Dir] # "absent" =>
            /\ Len(Acquisitions) = 1
            /\ Acquisitions[1].fn = "from_local_cache"
            /\ Acquisitions[1].arg = <<Dir>>
        /\ (fs0[Dir] = "absent" /\ hf_hub) =>
            /\ Len(Acquisitions) = 1
            /\ Acquisitions[1].fn = "from_hf_cached"
            /\ Acquisitions[1].arg = FetchArgs
        /\ (fs0[Dir] = "absent" /\ ~hf_hub) =>
            /\ pc = "exit_err"
            /\ err = Some(NoCacheMsg(Dir))
            /\ Unwrap(err)[Len(Unwrap(err))] = Dir
            /\ calls = <<>>
            /\ model = None
            /\ fs = fs0

\* An existing (even incomplete) cache is loaded locally although hf-hub is built in.
C1_Witness ==
    /\ ~args.cache_only /\ hf_hub /\ fs0[Dir] = "partial"
    /\ pc = "exit_err"
    /\ Len(calls) = 1 /\ calls[1].fn = "from_local_cache"

\* C2: with --cache-only and the cache directory there, the run ends
\* successfully at once: no load, no fetch, no embedding, no similarity, no
\* result object, the filesystem as it was; whatever hf-hub and the inputs.
C2_CacheOnlyPresentIsNoOp ==
    (args.cache_only /\ fs0[Dir] # "absent") =>
        /\ pc \in {"start", "cache_only", "exit_ok"}
        /\ calls = <<>>
        /\ model = None /\ inputs = None /\ embeddings = None /\ sim = None
        /\ stdout = <<>>
        /\ err = None
        /\ fs = fs0

C2_Witness ==
    /\ args.cache_only /\ fs0[Dir] # "absent" /\ pc = "exit_ok"
    /\ hf_hub /\ IsSome(args.query) /\ IsSome(args.document)

\* C3: with --cache-only and no cache directory: with hf-hub the run makes
\* the one fetch into the cache directory and, when it succeeds, exits
\* successfully with no embedding, no similarity and nothing printed; without
\* hf-hub it fails with the configuration error and calls nothing.
C3_CacheOnlyAbsent ==
    (args.cache_only /\ fs0[Dir] = "absent" /\ pc \notin {"start", "cache_only"}) =>
        /\ hf_hub =>
            /\ Len(calls) = 1
            /\ calls[1].fn = "from_hf_cached" /\ calls[1].arg = FetchArgs
            /\ calls[1].res = "ok" => (pc = "exit_ok" /\ err = None)
            /\ calls[1].res # "ok" => (pc = "exit_err" /\ err = Some(<<calls[1].res>>))
        /\ ~hf_hub =>
            /\ pc = "exit_err" /\ err = Some(CacheOnlyNoHubMsg)
            /\ calls = <<>>
            /\ fs = fs0
        /\ model = None /\ inputs = None /\ embeddings = None /\ sim = None
        /\ stdout = <<>>

C3_Witness ==
    /\ args.cache_only /\ fs0[Dir] = "absent" /\ hf_hub
    /\ pc = "exit_ok" /\ Len(calls) = 1 /\ calls[1].res = "ok"
    /\ fs[Dir] = "complete"

\* C4 (as claimed): a run without --cache-only and without --document fails
\* having made no model acquisition call: neither from_local_cache nor
\* from_hf_cached appears among its calls, and it never exits successfully.
\* (The claim also names the error, "--document is required"; the part stated
\* here already fails.)
C4_NoLoadWhenDocumentMissing ==
    (~args.cache_only /\ ~IsSome(args.document)) =>
        /\ Acquisitions = <<>>
        /\ pc # "exit_ok"

\* C5: once the model is ready and the inputs have been looked at: an absent
\* document or query ends the run with the missing-input error, with no
\* embed call, no similarity and nothing printed; embed is called only when
\* both are present.
C5_InputsRevalidated ==
    /\ (IsSome(model) /\ pc # "loaded") =>
        /\ ~IsSome(args.document) =>
            (pc = "exit_err" /\ err = Some(DocumentRequiredMsg))
        /\ (IsSome(args.document) /\ ~IsSome(args.query)) =>
            (pc = "exit_err" /\ err = Some(QueryRequiredMsg))
        /\ (~IsSome(args.document) \/ ~IsSome(args.query)) =>
            /\ CallsOf({"embed", "cosine_sim"}) = <<>>
            /\ inputs = None /\ embeddings = None /\ sim = None
            /\ stdout = <<>>
    /\ (CallsOf({"embed"}) # <<>> \/ pc \in {"prepared", "embedded", "scored"}) =>
        (IsSome(args.document) /\ IsSome(args.query))

C5_Witness ==
    /\ IsSome(model) /\ IsSome(args.document) /\ ~IsSome(args.query)
    /\ pc = "exit_err" /\ err = Some(QueryRequiredMsg)

\* C6: in a printed result the four durations are whole non-negative
\* milliseconds; the instants were taken in the order t0, t_model, t_embed,
\* t_sim and the total was read last, from t0; and the total is at least the
\* sum of the three truncated phase durations.
C6_TotalCoversPhases ==
    stdout # <<>> =>
        LET t == stdout[1].timings_ms
        IN  /\ t.model_load \in Nat /\ t.embed \in Nat
            /\ t.similarity \in Nat /\ t.total \in Nat
            /\ Unwrap(t0) <= Unwrap(t_model)
            /\ Unwrap(t_model) <= Unwrap(t_embed)
            /\ Unwrap(t_embed) <= Unwrap(t_sim)
            /\ Unwrap(t_sim) <= now
            /\ t.total * TicksPerMs <= now - Unwrap(t0)
            /\ now - Unwrap(t0) < (t.total + 1) * TicksPerMs
            /\ t.total >= t.model_load + t.embed + t.similarity
            /\ t.total >= t.model_load /\ t.total >= t.embed
            /\ t.total >= t.similarity

\* Every phase took at least a millisecond, one of them with a truncated
\* remainder, and the total exceeds their sum.
C6_Witness ==
    /\ stdout # <<>>
    /\ stdout[1].timings_ms.model_load >= 1
    /\ stdout[1].timings_ms.embed >= 1
    /\ stdout[1].timings_ms.similarity >= 1
    /\ stdout[1].timings_ms.total >
         stdout[1].timings_ms.model_load + stdout[1].timings_ms.embed
           + stdout[1].timings_ms.similarity
    /\ (now - Unwrap(t0)) % TicksPerMs # 0

\* C7: cosine_sim returns exactly +0.0 whenever either accumulated squared
\* norm is zero (so also for empty, all-zero and underflowing vectors): a
\* plain value, not NaN, not an infinity.
C7_ZeroNormGivesZero ==
    IsSome(vres) =>
        LET acc == ZipAccumulate(va, vb)
        IN  /\ (IsZero(acc.na) \/ IsZero(acc.nb)) =>
                (Unwrap(vres) = Zero(0) /\ ~IsNaN(Unwrap(vres)) /\ ~IsInf(Unwrap(vres)))
            /\ ((\A i \in 1..Len(va) : IsZero(va[i]))
                  \/ (\A i \in 1..Len(vb) : IsZero(vb[i]))) =>
                Unwrap(vres) = Zero(0)

\* The first norm underflows to zero while the other vector holds a NaN.
C7_Witness ==
    /\ va = <<Tiny, Tiny>> /\ vb = <<NaN, F(1)>>
    /\ vres = Some(Zero(0))

\* C8: for vectors of equal length, swapping the arguments swaps the two
\* accumulated squared norms and leaves the dot product, the zero-norm
\* branch and the returned value as they were.
C8_Symmetric ==
    (IsSome(vres) /\ Len(va) = Len(vb)) =>
        LET ab == ZipAccumulate(va, vb)
            ba == ZipAccumulate(vb, va)
        IN  /\ Unwrap(vres) = cosine_sim(vb, va)
            /\ ab.dot = ba.dot
            /\ ab.na = ba.nb /\ ab.nb = ba.na
            /\ ZeroNorm(ab) <=> ZeroNorm(ba)

\* Two different vectors with different norms and a quotient that is rounded:
\* 2 / (sqrt(5) * sqrt(8)) = 10610843 * 2^-25 in binary32.
C8_Witness ==
    /\ va = <<F(1), F(-2)>> /\ vb = <<F(-2), F(-2)>>
    /\ vres = Some([k |-> "fin", s |-> 0, m |-> 10610843, e |-> -25])

\* C9: a failed call is the last call of the run and its error is the error
\* of the run; a run that ended in error printed nothing and takes no further
\* step; a failed local load is never followed by a fetch; a run makes at
\* most one acquisition call and at most one embed call.
C9_ErrorsAreTerminal ==
    /\ Len(Acquisitions) <= 1
    /\ Len(CallsOf({"embed"})) <= 1
    /\ \A i \in 1..Len(calls) :
        calls[i].res # "ok" =>
            (i = Len(calls) /\ pc = "exit_err" /\ err = Some(<<calls[i].res>>))
    /\ pc = "exit_err" =>
        /\ IsSome(err)
        /\ stdout = <<>>
        /\ sim = None
        /\ ~ENABLED Next
    /\ IsSome(err) => pc = "exit_err"

\* The cache is there but unusable, hf-hub is built in, and the run ended
\* with the load error after the one local load.
C9_Witness ==
    /\ hf_hub /\ ~args.cache_only
    /\ pc = "exit_err" /\ err = Some(<<"LoadError">>)
    /\ Len(calls) = 1 /\ calls[1].fn = "from_local_cache"
    /\ fs = fs0

\* C10: the one embed call gets exactly "query: " + query, then
\* "passage: " + document; the similarity is that of output vector 0 and
\* output vector 1 of that call; a result is printed only after acquisition,
\* embed and cosine_sim, in that order, and carries that similarity (as JSON:
\* null when it is NaN or infinite).
C10_BatchOrderAndPhases ==
    /\ Len(CallsOf({"embed"})) <= 1
    /\ \A i \in 1..Len(calls) :
        calls[i].fn = "embed" =>
            /\ IsSome(args.query) /\ IsSome(args.document)
            /\ Len(calls[i].arg) = 2
            /\ calls[i].arg[1] = "query: " \o Unwrap(args.query)
            /\ calls[i].arg[2] = "passage: " \o Unwrap(args.document)
    /\ IsSome(sim) =>
        /\ Len(calls) = 3
        /\ calls[1].fn \in {"from_local_cache", "from_hf_cached"}
        /\ calls[2].fn = "embed" /\ calls[2].res = "ok"
        /\ calls[3].fn = "cosine_sim"
        /\ Len(Unwrap(embeddings)) = 2
        /\ calls[3].arg = <<Unwrap(embeddings)[1], Unwrap(embeddings)[2]>>
        /\ Unwrap(sim) = cosine_sim(Unwrap(embeddings)[1], Unwrap(embeddings)[2])
    /\ stdout # <<>> =>
        /\ Len(stdout) = 1
        /\ IsSome(model) /\ IsSome(sim)
        /\ stdout[1].cosine_similarity =
             (IF Unwrap(sim).k \in {"nan", "inf"} THEN [k |-> "null"] ELSE Unwrap(sim))
        /\ pc = "exit_ok"

\* An empty query is still sent as "query: ", and the score printed is that
\* of the query vector against the document vector.
C10_Witness ==
    /\ stdout # <<>> /\ args.query = Some("")
    /\ Unwrap(embeddings) = <<<<F(3), F(4)>>, <<F(-1), F(0)>>>>
    /\ stdout[1].cosine_similarity = [k |-> "fin", s |-> 1, m |-> 5033165, e |-> -23]

====
